---- MODULE Spec2Model ----
(***************************************************************************)
(* NeoHookOperator (include/mf_nh_operator.h): the matrix-free tangent    *)
(* operator of a finite-strain Neo-Hookean solid, its diagonal and the    *)
(* Jacobi preconditioner built on it.                                      *)
(*                                                                         *)
(* The operator is modelled for the instantiation dim = 1, fe_degree = 1,  *)
(* number = double, with exact rational arithmetic in place of floating    *)
(* point, and with the operator's Asserts active as in a debug build (a    *)
(* failed Assert is an exception the caller sees).  A dereference of an    *)
(* unbound pointer or a read past the end of a context's tables is         *)
(* undefined behaviour and is modelled as the process aborting or reading  *)
(* an arbitrary value.                                                     *)
(***************************************************************************)
EXTENDS Integers, Sequences, FiniteSets, TLC

(***************************************************************************)
(* Bounds of the model.                                                    *)
(***************************************************************************)
NumCells == 3      \* physical cells of the 1D mesh (NumCells + 1 DOFs)
NumQ == 2          \* quadrature points per cell of a matching context
NumArgs == 2       \* argument tuples (src, dst, omega) a caller passes

(***************************************************************************)
(* Program constants.                                                      *)
(***************************************************************************)
dim == 1                   \* template parameter dim; n_components = dim
dofs_per_component == 2    \* fe_degree = 1 in one dimension
n_array_elements == 2      \* VectorizedArray<double>::n_array_elements
SqrtEpsilonInv == 67108864 \* 1 / sqrt(numeric_limits<double>::epsilon())
JxWTolInvRoot == 100000    \* the guard 1e-10 is 1 / (100000 * 100000)

NULL == "NULL"

(***************************************************************************)
(* The type number: exact rationals <<n, d>>, d > 0, in lowest terms.      *)
(***************************************************************************)
Abs(a) == IF a < 0 THEN -a ELSE a

RECURSIVE GCD(_, _)
GCD(a, b) == IF b = 0 THEN a ELSE GCD(b, a % b)

Rat(n, d) ==
    LET g == GCD(Abs(n), Abs(d))
        s == IF d < 0 THEN -1 ELSE 1
    IN  <<s * (n \div g), s * (d \div g)>>

R(n) == <<n, 1>>

RNeg(x) == <<-x[1], x[2]>>

RAdd(x, y) ==
    LET g  == GCD(x[2], y[2])
        lx == y[2] \div g
        ly == x[2] \div g
    IN  Rat(x[1] * lx + y[1] * ly, x[2] * lx)

RMul(x, y) ==
    LET g1 == GCD(Abs(x[1]), y[2])
        g2 == GCD(Abs(y[1]), x[2])
    IN  Rat((x[1] \div g1) * (y[1] \div g2), (x[2] \div g2) * (y[2] \div g1))

\* 1./x for x # 0
RInv(x) == IF x[1] < 0 THEN <<-x[2], -x[1]>> ELSE <<x[2], x[1]>>

RAbs(x) == <<Abs(x[1]), x[2]>>

\* std::abs(x) > 1/k for a positive integer k, i.e. |n| * k > d
AbsExceedsInv(x, k) == x[1] # 0 /\ k > x[2] \div Abs(x[1])

(***************************************************************************)
(* Vector<number>: a function on 0 .. size-1.                              *)
(***************************************************************************)
Size(v) == Cardinality(DOMAIN v)

RECURSIVE Tabulate(_, _)
\* the function on 0 .. n-1 with the values Op(0), ..., Op(n-1)
Tabulate(Op(_), n) ==
    IF n = 0 THEN <<>> ELSE Tabulate(Op, n - 1) @@ ((n - 1) :> Op(n - 1))

\* Body(v), with v evaluated first
Let(v, Body(_)) == CHOOSE r \in {Body(x) : x \in {v}} : TRUE

ZeroVector(n) == Tabulate(LAMBDA i : R(0), n)

RECURSIVE RSum(_, _)
\* f[0] + ... + f[n-1]
RSum(f, n) == IF n = 0 THEN R(0) ELSE RAdd(RSum(f, n - 1), f[n - 1])

(***************************************************************************)
(* MatrixFree<dim,number>: the evaluation contexts a caller can bind.      *)
(* Each describes a 1D mesh of linear cells; cell batch `cell`, lane       *)
(* `lane` holds physical cell cell * n_array_elements + lane, and the      *)
(* lanes of the last batch beyond the mesh are padding with zero weights.  *)
(* A context resolves its constraints: read_dof_values reads 0 at a        *)
(* constrained DOF and distribute_local_to_global writes nothing there.    *)
(***************************************************************************)
MatrixFreeIds == {"mf_cur", "mf_ref", "mf_coarse", "mf_lowq"}

n_physical_cells(mf) ==
    IF mf = "mf_coarse" THEN NumCells - n_array_elements ELSE NumCells

n_macro_cells(mf) ==
    (n_physical_cells(mf) + n_array_elements - 1) \div n_array_elements

n_q_points(mf) == IF mf = "mf_lowq" THEN NumQ - 1 ELSE NumQ

n_dofs(mf) == n_physical_cells(mf) + 1

PhysicalCell(cell, lane) == cell * n_array_elements + lane

lane_filled(mf, cell, lane) == PhysicalCell(cell, lane) < n_physical_cells(mf)

\* global index of local DOF i of a filled lane
dof_index(cell, lane, i) == PhysicalCell(cell, lane) + i

get_constrained_dofs(mf) ==
    IF mf = "mf_ref" THEN <<0, n_dofs(mf) - 1>> ELSE <<0>>

is_constrained(mf, g) ==
    \E j \in 1 .. Len(get_constrained_dofs(mf)) : get_constrained_dofs(mf)[j] = g

\* length of a physical cell in the configuration the context describes
CellLength(mf, p) ==
    CASE mf = "mf_cur"    -> IF p % 2 = 1 THEN Rat(1, 2) ELSE R(1)
      [] mf = "mf_coarse" -> R(2)
      [] OTHER            -> R(1)

\* a read of cell batch `cell` or quadrature point q that the context lacks
OutOfRange(mf, cell, q) == cell >= n_macro_cells(mf) \/ q >= n_q_points(mf)

\* phi.JxW(q)[lane]; `garbage` is what an out-of-range read returns
JxW(mf, cell, q, lane, garbage) ==
    IF OutOfRange(mf, cell, q) THEN garbage
    ELSE IF lane_filled(mf, cell, lane)
         THEN RMul(CellLength(mf, PhysicalCell(cell, lane)), Rat(1, n_q_points(mf)))
         ELSE R(0)

\* gradient of shape function i at a quadrature point of a filled lane
ShapeGrad(mf, cell, lane, i) ==
    IF lane_filled(mf, cell, lane)
    THEN LET inv == RInv(CellLength(mf, PhysicalCell(cell, lane)))
         IN  IF i = 0 THEN RNeg(inv) ELSE inv
    ELSE R(0)

\* phi.read_dof_values_plain(vec) for one lane: constraints ignored
read_dof_values_plain(mf, cell, lane, vec, garbage) ==
    Tabulate(LAMBDA i :
                 IF cell >= n_macro_cells(mf) THEN garbage
                 ELSE IF lane_filled(mf, cell, lane)
                      THEN vec[dof_index(cell, lane, i)]
                      ELSE R(0),
             dofs_per_component * dim)

\* phi.read_dof_values(vec) for one lane: constraints resolved
read_dof_values(mf, cell, lane, vec, garbage) ==
    Tabulate(LAMBDA i :
                 IF cell >= n_macro_cells(mf) THEN garbage
                 ELSE IF lane_filled(mf, cell, lane)
                         /\ ~is_constrained(mf, dof_index(cell, lane, i))
                      THEN vec[dof_index(cell, lane, i)]
                      ELSE R(0),
             dofs_per_component * dim)

\* phi.evaluate(false,true,false); phi.get_gradient(q)[lane]
get_gradient(mf, cell, q, lane, values, garbage) ==
    IF OutOfRange(mf, cell, q) THEN garbage
    ELSE RSum(Tabulate(LAMBDA i : RMul(ShapeGrad(mf, cell, lane, i), values[i]),
                       dofs_per_component * dim),
              dofs_per_component * dim)

RECURSIVE DistributeLane(_, _, _, _, _, _)
\* adds local values 0 .. n-1 of one lane into dst
DistributeLane(mf, cell, lane, values, dst, n) ==
    IF n = 0 THEN dst
    ELSE Let(DistributeLane(mf, cell, lane, values, dst, n - 1), LAMBDA d :
             IF is_constrained(mf, dof_index(cell, lane, n - 1)) THEN d
             ELSE [d EXCEPT ![dof_index(cell, lane, n - 1)] =
                                RAdd(@, values[n - 1])])

RECURSIVE DistributeLanes(_, _, _, _, _)
DistributeLanes(mf, cell, values, dst, n) ==
    IF n = 0 THEN dst
    ELSE Let(DistributeLanes(mf, cell, values, dst, n - 1), LAMBDA d :
             IF lane_filled(mf, cell, n - 1)
             THEN DistributeLane(mf, cell, n - 1, values[n - 1], d,
                                 dofs_per_component * dim)
             ELSE d)

\* phi.distribute_local_to_global(dst): values[lane][i] is added into dst at
\* every unconstrained DOF of the filled lanes
distribute_local_to_global(mf, cell, values, dst) ==
    DistributeLanes(mf, cell, values, dst, n_array_elements)

(***************************************************************************)
(* Material_Compressible_Neo_Hook_One_Field and the kinematics, in one     *)
(* dimension: the isochoric part vanishes and the volumetric response is   *)
(* tau = kappa/2 (J^2 - 1), Jc : d = kappa d.                              *)
(***************************************************************************)
Materials == {"soft", "unit"}

kappa(material) == IF material = "soft" THEN Rat(1, SqrtEpsilonInv) ELSE R(1)

Kinematics_F(grad_u) == RAdd(R(1), grad_u)

determinant(F) == F

\* det(F)^(-1/dim) F
Kinematics_F_iso(F) == RMul(RInv(determinant(F)), F)

Kinematics_b(F) == RMul(F, F)

get_tau(material, det_F, b_bar) ==
    RMul(RMul(kappa(material), Rat(1, 2)), RAdd(RMul(det_F, det_F), R(-1)))

act_Jc(material, det_F, b_bar, symm_grad_Nx_v) ==
    RMul(kappa(material), symm_grad_Nx_v)

egeo_grad(grad_Nx_v, tau_ns) == RMul(grad_Nx_v, tau_ns)

(***************************************************************************)
(* State: the members of NeoHookOperator, the caller's displacement        *)
(* vector, and the outcome of the most recent call.                        *)
(***************************************************************************)
VARIABLES
    data_current,             \* bound current-configuration context or NULL
    data_reference,           \* bound reference-configuration context or NULL
    displacement,             \* NULL, or "solution": points at the caller's vector
    solution,                 \* the caller's displacement vector
    material,                 \* bound material or NULL
    inverse_diagonal_entries, \* [null, vec]: shared_ptr<DiagonalMatrix>
    diagonal_entries,         \* [null, vec]
    diagonal_is_available,
    call,                     \* the most recent call: arguments, error, result
    last_kernel,              \* the last cell loop's quadrature data: [cell][lane][q]
    aborted                   \* the process died on undefined behaviour

vars == <<data_current, data_reference, displacement, solution, material,
          inverse_diagonal_entries, diagonal_entries, diagonal_is_available,
          call, last_kernel, aborted>>

NullPtr == [null |-> TRUE, vec |-> <<>>]

Ptr(v) == [null |-> FALSE, vec |-> v]

dofs_per_cell == dofs_per_component * dim

\* std::abs(JxW_current[i]) > 1e-10
AbsExceedsJxWTol(x) ==
    x[1] # 0 /\ JxWTolInvRoot > (x[2] \div Abs(x[1])) \div JxWTolInvRoot

\* the rescale factor with the guarded lanes set to 1
JxWScaleLaneOne(JxW_reference, JxW_current) ==
    IF AbsExceedsJxWTol(JxW_current)
    THEN RMul(JxW_reference, RInv(JxW_current))
    ELSE R(1)

\* lines 390-394: the rescale factor of one lane
JxWScaleLane(JxW_reference, JxW_current) ==
    IF AbsExceedsJxWTol(JxW_current)
    THEN RMul(JxW_reference, RInv(JxW_current))
    ELSE JxW_reference

\* one lane of one quadrature point of do_operation_on_cell
QuadraturePoint(cell, q, lane, phi_current, phi_current_s, phi_reference, garbage) ==
    LET grad_u         == get_gradient(data_reference, cell, q, lane,
                                       phi_reference[lane], garbage)
        F              == Kinematics_F(grad_u)
        det_F          == determinant(F)
        F_bar          == Kinematics_F_iso(F)
        b_bar          == Kinematics_b(F_bar)
        grad_Nx_v      == get_gradient(data_current, cell, q, lane,
                                       phi_current[lane], garbage)
        symm_grad_Nx_v == grad_Nx_v
        tau            == get_tau(material, det_F, b_bar)
        jc_part        == act_Jc(material, det_F, b_bar, symm_grad_Nx_v)
        JxW_current    == JxW(data_current, cell, q, lane, garbage)
        scale          == JxWScaleLane(JxW(data_reference, cell, q, lane, garbage),
                                       JxW_current)
        geo            == egeo_grad(grad_Nx_v, tau)
    IN  [JxW_reference |-> JxW(data_reference, cell, q, lane, garbage),
         JxW_current   |-> JxW_current,
         JxW_scale     |-> scale,
         jc_part       |-> jc_part,
         geo           |-> geo,
         submit_symmetric_gradient |-> RMul(jc_part, scale),
         submit_gradient           |-> RMul(geo, scale)]

\* phi.integrate(false,true): the submitted values, weighted with the
\* evaluator's own JxW, tested with the shape gradients
integrate(cell, lane, submitted) ==
    Tabulate(LAMBDA i :
                 RSum(Tabulate(LAMBDA q :
                                   RMul(ShapeGrad(data_current, cell, lane, i),
                                        RMul(submitted[q],
                                             JxW(data_current, cell, q, lane, R(0)))),
                               n_q_points(data_current)),
                      n_q_points(data_current)),
             dofs_per_cell)

\* do_operation_on_cell: the evaluators' local buffers after integration
do_operation_on_cell(cell, phi_current, phi_current_s, phi_reference, garbage) ==
    LET nq == n_q_points(data_current)
    IN  Let(Tabulate(LAMBDA lane : Tabulate(LAMBDA q :
                QuadraturePoint(cell, q, lane, phi_current, phi_current_s,
                                phi_reference, garbage), nq), n_array_elements),
            LAMBDA qp :
        [phi_current   |-> Tabulate(LAMBDA lane :
                              integrate(cell, lane,
                                  Tabulate(LAMBDA q : qp[lane][q].submit_gradient, nq)),
                              n_array_elements),
         phi_current_s |-> Tabulate(LAMBDA lane :
                              integrate(cell, lane,
                                  Tabulate(LAMBDA q :
                                      qp[lane][q].submit_symmetric_gradient, nq)),
                              n_array_elements),
         quad          |-> qp])

\* reinit(cell) and read_dof_values(vec) into every lane of an evaluator
ReadCell(mf, cell, vec, garbage) ==
    Tabulate(LAMBDA lane : read_dof_values(mf, cell, lane, vec, garbage),
             n_array_elements)

\* reinit(cell) and read_dof_values_plain(vec) into every lane
ReadCellPlain(mf, cell, vec, garbage) ==
    Tabulate(LAMBDA lane : read_dof_values_plain(mf, cell, lane, vec, garbage),
             n_array_elements)

RECURSIVE local_apply_cell_loop(_, _, _)
\* lines 264-280: cells 0 .. n-1; [dst, quad]
local_apply_cell_loop(dst, src, n) ==
    IF n = 0 THEN [dst |-> dst, quad |-> <<>>]
    ELSE LET cell == n - 1
         IN  Let(local_apply_cell_loop(dst, src, n - 1), LAMBDA before :
             Let(ReadCell(data_current, cell, src, R(0)), LAMBDA phi_current :
             Let(ReadCell(data_current, cell, src, R(0)), LAMBDA phi_current_s :
             Let(ReadCellPlain(data_reference, cell, solution, R(0)), LAMBDA phi_reference :
             Let(do_operation_on_cell(cell, phi_current, phi_current_s,
                                      phi_reference, R(0)), LAMBDA out :
             Let(distribute_local_to_global(data_current, cell,
                                            out.phi_current, before.dst), LAMBDA d1 :
             Let(distribute_local_to_global(data_current, cell,
                                            out.phi_current_s, d1), LAMBDA d2 :
                 [dst |-> d2, quad |-> Append(before.quad, out.quad)])))))))

\* local_apply_cell without the Assert on the quadrature point counts
local_apply_cell_unchecked(dst, src) ==
    Let(local_apply_cell_loop(dst, src, n_macro_cells(data_current)),
        LAMBDA r : [err |-> "none", dst |-> r.dst, quad |-> r.quad])

\* local_apply_cell over (0, n_macro_cells): [err, dst, quad]
local_apply_cell(dst, src) ==
    IF n_q_points(data_current) # n_q_points(data_reference)
    THEN [err |-> "ExcInternalError", dst |-> dst, quad |-> <<>>]
    ELSE Let(local_apply_cell_loop(dst, src, n_macro_cells(data_current)),
             LAMBDA r : [err |-> "none", dst |-> r.dst, quad |-> r.quad])

\* step 4 of vmult_add left out
AddConstrainedSkipped(dst, src, constrained_dofs, n) == dst

RECURSIVE AddConstrained(_, _, _, _)
\* lines 242-243: the first n constrained entries
AddConstrained(dst, src, constrained_dofs, n) ==
    IF n = 0 THEN dst
    ELSE LET d == AddConstrained(dst, src, constrained_dofs, n - 1)
             k == constrained_dofs[n]
         IN  [d EXCEPT ![k] = RAdd(@, src[k])]

\* vmult_add(dst, src): [err, dst, quad]
vmult_add(dst, src) ==
    IF n_macro_cells(data_current) # n_macro_cells(data_reference)
    THEN [err |-> "ExcInternalError", dst |-> dst, quad |-> <<>>]
    ELSE LET c == get_constrained_dofs(data_current)
         IN  Let(local_apply_cell(dst, src), LAMBDA r :
                 IF r.err # "none" THEN r
                 ELSE [r EXCEPT !.dst = AddConstrained(r.dst, src, c, Len(c))])

\* vmult(dst, src)
vmult(dst, src) == vmult_add(ZeroVector(Size(dst)), src)

\* Tvmult without the reset of dst
TvmultAccumulating(dst, src) == vmult_add(dst, src)

\* Tvmult(dst, src)
Tvmult(dst, src) == vmult_add(ZeroVector(Size(dst)), src)

\* Tvmult_add(dst, src)
Tvmult_add(dst, src) == vmult_add(dst, src)

\* a probe whose zeroing loop stops at ind_i: the entries behind it keep
\* what the buffer held
ProbeValuesPartlyZeroed(phi, ind_i) ==
    Tabulate(LAMBDA lane :
                 Tabulate(LAMBDA j : IF j = ind_i THEN R(1)
                                     ELSE IF j < ind_i THEN R(0)
                                     ELSE phi[lane][j],
                          dofs_per_cell),
             n_array_elements)

\* lines 321-332: both current-configuration buffers zeroed, entry ind_i set to 1
ProbeValues(phi, ind_i) ==
    Tabulate(LAMBDA lane :
                 Tabulate(LAMBDA j : IF j = ind_i THEN R(1) ELSE R(0), dofs_per_cell),
             n_array_elements)

RECURSIVE ProbeLoop(_, _, _, _, _, _)
\* lines 318-338: the first n probes of one cell batch; the evaluators'
\* buffers are carried from one probe to the next
\* [phi_current, phi_current_s, local_diagonal_vector, quad]
ProbeLoop(cell, phi_current, phi_current_s, phi_reference, garbage, n) ==
    IF n = 0
    THEN [phi_current |-> phi_current, phi_current_s |-> phi_current_s,
          local_diagonal_vector |->
              Tabulate(LAMBDA lane : ZeroVector(dofs_per_cell), n_array_elements),
          quad |-> <<>>]
    ELSE LET i     == (n - 1) \div dim
             ic    == (n - 1) % dim
             ind_i == i + ic * dofs_per_component
         IN  Let(ProbeLoop(cell, phi_current, phi_current_s, phi_reference,
                           garbage, n - 1), LAMBDA before :
             Let(ProbeValues(before.phi_current, ind_i), LAMBDA probe :
             Let(ProbeValues(before.phi_current_s, ind_i), LAMBDA probe_s :
             Let(do_operation_on_cell(cell, probe, probe_s, phi_reference, garbage),
                 LAMBDA out :
             [phi_current   |-> out.phi_current,
              phi_current_s |-> out.phi_current_s,
              local_diagonal_vector |->
                  Tabulate(LAMBDA lane :
                      [before.local_diagonal_vector[lane] EXCEPT ![ind_i] =
                          RAdd(out.phi_current[lane][ind_i],
                               out.phi_current_s[lane][ind_i])],
                      n_array_elements),
              quad |-> out.quad]))))

RECURSIVE local_diagonal_cell(_, _, _)
\* local_diagonal_cell over cells 0 .. n-1: [dst, quad]
local_diagonal_cell(dst, garbage, n) ==
    IF n = 0 THEN [dst |-> dst, quad |-> <<>>]
    ELSE LET cell == n - 1
         IN  Let(local_diagonal_cell(dst, garbage, n - 1), LAMBDA before :
             Let(ReadCell(data_current, cell, solution, garbage), LAMBDA phi_current :
             Let(ReadCell(data_current, cell, solution, garbage), LAMBDA phi_current_s :
             Let(ReadCellPlain(data_reference, cell, solution, garbage), LAMBDA phi_reference :
             Let(ProbeLoop(cell, phi_current, phi_current_s, phi_reference,
                           garbage, dofs_per_cell), LAMBDA probed :
                 [dst  |-> distribute_local_to_global(data_current, cell,
                               probed.local_diagonal_vector, before.dst),
                  quad |-> Append(before.quad, probed.quad)])))))

\* the constrained entries left as the probes scattered them
SetConstrainedEntriesSkipped(diagonal_vector, constrained_dofs, n) ==
    diagonal_vector

RECURSIVE SetConstrainedEntriesToOne(_, _, _)
\* lines 445-450
SetConstrainedEntriesToOne(diagonal_vector, constrained_dofs, n) ==
    IF n = 0 THEN diagonal_vector
    ELSE [SetConstrainedEntriesToOne(diagonal_vector, constrained_dofs, n - 1)
             EXCEPT ![constrained_dofs[n]] = R(1)]

\* the clamp test with >= in place of >
AbsReachesSqrtEpsilon(x) ==
    AbsExceedsInv(x, SqrtEpsilonInv) \/ RAbs(x) = <<1, SqrtEpsilonInv>>

\* std::abs(x) > std::sqrt(std::numeric_limits<number>::epsilon())
AbsExceedsSqrtEpsilon(x) == AbsExceedsInv(x, SqrtEpsilonInv)

\* lines 453-459
InvertDiagonal(diagonal_vector) ==
    Tabulate(LAMBDA i :
                 IF AbsExceedsSqrtEpsilon(diagonal_vector[i])
                 THEN RInv(diagonal_vector[i])
                 ELSE R(1),
             Size(diagonal_vector))

\* compute_diagonal(): [diagonal_vector, inverse_diagonal_vector, quad]
compute_diagonal(garbage) ==
    LET c == get_constrained_dofs(data_current)
    IN  Let(local_diagonal_cell(ZeroVector(n_dofs(data_current)), garbage,
                                n_macro_cells(data_current)), LAMBDA probed :
        Let(SetConstrainedEntriesToOne(probed.dst, c, Len(c)), LAMBDA diag :
            [diagonal_vector         |-> diag,
             inverse_diagonal_vector |-> InvertDiagonal(diag),
             quad                    |-> probed.quad]))

\* el(row, col) with the diagonal at hand but the flag wrongly tested first
elAvailabilityFirst(row, col) ==
    IF diagonal_is_available # TRUE
    THEN [err |-> "ExcNotInitialized", ret |-> R(0)]
    ELSE IF row # col THEN [err |-> "ExcNotImplemented", ret |-> R(0)]
    ELSE [err |-> "none", ret |-> diagonal_entries.vec[row]]

\* el(row, col): [err, ret]
el(row, col) ==
    IF row # col THEN [err |-> "ExcNotImplemented", ret |-> R(0)]
    ELSE IF diagonal_is_available # TRUE
    THEN [err |-> "ExcNotInitialized", ret |-> R(0)]
    ELSE [err |-> "none", ret |-> diagonal_entries.vec[row]]

\* precondition_Jacobi(dst, src, omega): the Assert's condition
JacobiInitialized ==
    ~inverse_diagonal_entries.null /\ Size(inverse_diagonal_entries.vec) > 0

\* DiagonalMatrix::vmult without the scaling by omega
precondition_JacobiUnscaled(dst, src, omega) ==
    Tabulate(LAMBDA i : RMul(inverse_diagonal_entries.vec[i], src[i]), Size(dst))

\* lines 121-122: DiagonalMatrix::vmult, then dst *= omega
precondition_Jacobi(dst, src, omega) ==
    Tabulate(LAMBDA i : RMul(RMul(inverse_diagonal_entries.vec[i], src[i]), omega),
             Size(dst))

(***************************************************************************)
(* What callers pass.                                                      *)
(***************************************************************************)
\* the pairs (current context, reference context) a caller binds
Bindings == {<<"mf_cur", "mf_ref">>, <<"mf_coarse", "mf_ref">>,
             <<"mf_cur", "mf_lowq">>}

\* the displacement states the outer solver moves between: the undeformed
\* mesh and a uniform stretch by the factor 1 + k
Stretches == {0, 1}

DispVec(k) == Tabulate(LAMBDA i : R(k * i), NumCells + 1)

SrcVec(k, n) == Tabulate(LAMBDA i : R(1 + k * (i - 1)), n)

DstVec(k, n) == Tabulate(LAMBDA i : R(k + i + 2), n)

OmegaVal(k) == Rat(k + 1, 2)

\* what a read past the end of a context's tables may return
Garbage == {R(0), R(1)}

NoCall == [op |-> "none", err |-> "none", src |-> <<>>, dst_in |-> <<>>,
           dst |-> <<>>, omega |-> R(0), row |-> 0, col |-> 0, ret |-> R(0)]

Init ==
    /\ data_current = NULL
    /\ data_reference = NULL
    /\ displacement = NULL
    /\ solution = DispVec(0)
    /\ material = NULL
    /\ inverse_diagonal_entries = NullPtr
    /\ diagonal_entries = NullPtr
    /\ diagonal_is_available = FALSE
    /\ call = NoCall
    /\ last_kernel = <<>>
    /\ aborted = FALSE

\* clear() that leaves the inverse diagonal in place
ClearKeepsInverse ==
    /\ ~aborted
    /\ data_current' = NULL
    /\ data_reference' = NULL
    /\ diagonal_is_available' = FALSE
    /\ diagonal_entries' = NullPtr
    /\ call' = [NoCall EXCEPT !.op = "clear"]
    /\ last_kernel' = <<>>
    /\ UNCHANGED <<displacement, solution, material, aborted,
                   inverse_diagonal_entries>>

\* clear()
Clear ==
    /\ ~aborted
    /\ data_current' = NULL
    /\ data_reference' = NULL
    /\ diagonal_is_available' = FALSE
    /\ diagonal_entries' = NullPtr
    /\ inverse_diagonal_entries' = NullPtr
    /\ call' = [NoCall EXCEPT !.op = "clear"]
    /\ last_kernel' = <<>>
    /\ UNCHANGED <<displacement, solution, material, aborted>>

\* initialize() that also invalidates the diagonal
InitializeDropsDiagonal ==
    /\ ~aborted
    /\ \E b \in Bindings :
          /\ data_current' = b[1]
          /\ data_reference' = b[2]
    /\ displacement' = "solution"
    /\ diagonal_is_available' = FALSE
    /\ diagonal_entries' = NullPtr
    /\ inverse_diagonal_entries' = NullPtr
    /\ call' = [NoCall EXCEPT !.op = "initialize"]
    /\ last_kernel' = <<>>
    /\ UNCHANGED <<solution, material, aborted>>

\* initialize(data_current_, data_reference_, displacement_)
Initialize ==
    /\ ~aborted
    /\ \E b \in Bindings :
          /\ data_current' = b[1]
          /\ data_reference' = b[2]
    /\ displacement' = "solution"
    /\ call' = [NoCall EXCEPT !.op = "initialize"]
    /\ last_kernel' = <<>>
    /\ UNCHANGED <<solution, material, inverse_diagonal_entries, diagonal_entries,
                   diagonal_is_available, aborted>>

\* set_material(material_)
SetMaterial ==
    /\ ~aborted
    /\ \E m \in Materials : material' = m
    /\ call' = [NoCall EXCEPT !.op = "set_material"]
    /\ last_kernel' = <<>>
    /\ UNCHANGED <<data_current, data_reference, displacement, solution,
                   inverse_diagonal_entries, diagonal_entries,
                   diagonal_is_available, aborted>>

\* the outer solver updates the displacement vector the operator points at
NewtonUpdate ==
    /\ ~aborted
    /\ \E k \in Stretches :
          /\ DispVec(k) # solution
          /\ solution' = DispVec(k)
    /\ call' = [NoCall EXCEPT !.op = "newton_update"]
    /\ last_kernel' = <<>>
    /\ UNCHANGED <<data_current, data_reference, displacement, material,
                   inverse_diagonal_entries, diagonal_entries,
                   diagonal_is_available, aborted>>

\* the cell loop dereferences a pointer that is not bound
ApplyUndefined ==
    \/ data_current = NULL
    \/ data_reference = NULL
    \/ /\ n_macro_cells(data_current) = n_macro_cells(data_reference)
       /\ n_q_points(data_current) = n_q_points(data_reference)
       /\ (material = NULL \/ displacement = NULL)

ApplyOp(op, dst, src) ==
    CASE op = "vmult"      -> vmult(dst, src)
      [] op = "Tvmult"     -> Tvmult(dst, src)
      [] op = "vmult_add"  -> vmult_add(dst, src)
      [] op = "Tvmult_add" -> Tvmult_add(dst, src)

ApplyCall(op) ==
    /\ ~aborted
    /\ IF ApplyUndefined
       THEN /\ aborted' = TRUE
            /\ call' = [NoCall EXCEPT !.op = op]
            /\ last_kernel' = <<>>
       ELSE \E k \in 0 .. NumArgs - 1 :
               \E src \in {SrcVec(k, n_dofs(data_current))},
                  dst \in {DstVec(k, n_dofs(data_current))} :
                  \E r \in {ApplyOp(op, dst, src)} :
                     /\ call' = [NoCall EXCEPT !.op = op, !.err = r.err,
                                               !.src = src, !.dst_in = dst,
                                               !.dst = r.dst]
                     /\ last_kernel' = r.quad
                     /\ aborted' = FALSE
    /\ UNCHANGED <<data_current, data_reference, displacement, solution, material,
                   inverse_diagonal_entries, diagonal_entries,
                   diagonal_is_available>>

Vmult == ApplyCall("vmult")

TvmultCall == ApplyCall("Tvmult")

VmultAdd == ApplyCall("vmult_add")

TvmultAdd == ApplyCall("Tvmult_add")

\* the reference context lacks a cell batch or quadrature point the probes read
ReferenceOutOfRange ==
    \/ n_macro_cells(data_reference) < n_macro_cells(data_current)
    \/ n_q_points(data_reference) < n_q_points(data_current)

\* compute_diagonal()
ComputeDiagonal ==
    /\ ~aborted
    /\ call' = [NoCall EXCEPT !.op = "compute_diagonal"]
    /\ IF data_current = NULL
       THEN /\ aborted' = TRUE
            /\ inverse_diagonal_entries' = Ptr(<<>>)
            /\ diagonal_entries' = Ptr(<<>>)
            /\ UNCHANGED diagonal_is_available
            /\ last_kernel' = <<>>
       ELSE IF data_reference = NULL \/ material = NULL \/ displacement = NULL
       THEN /\ aborted' = TRUE
            /\ inverse_diagonal_entries' = Ptr(ZeroVector(n_dofs(data_current)))
            /\ diagonal_entries' = Ptr(ZeroVector(n_dofs(data_current)))
            /\ UNCHANGED diagonal_is_available
            /\ last_kernel' = <<>>
       ELSE \/ /\ ReferenceOutOfRange
               /\ aborted' = TRUE
               /\ inverse_diagonal_entries' = Ptr(ZeroVector(n_dofs(data_current)))
               /\ diagonal_entries' = Ptr(ZeroVector(n_dofs(data_current)))
               /\ UNCHANGED diagonal_is_available
               /\ last_kernel' = <<>>
            \/ \E garbage \in (IF ReferenceOutOfRange THEN Garbage ELSE {R(0)}) :
                  \E r \in {compute_diagonal(garbage)} :
                      /\ inverse_diagonal_entries' = Ptr(r.inverse_diagonal_vector)
                      /\ diagonal_entries' = Ptr(r.diagonal_vector)
                      /\ diagonal_is_available' = TRUE
                      /\ last_kernel' = r.quad
                      /\ aborted' = FALSE
    /\ UNCHANGED <<data_current, data_reference, displacement, solution, material>>

\* el(row, col)
El ==
    /\ ~aborted
    /\ \E row \in 0 .. NumCells, col \in 0 .. NumCells :
          /\ col \in {row, (row + 1) % (NumCells + 1)}
          /\ diagonal_is_available => row \in DOMAIN diagonal_entries.vec
          /\ call' = [NoCall EXCEPT
                        !.op = "el", !.row = row, !.col = col,
                        !.err = el(row, col).err, !.ret = el(row, col).ret]
    /\ last_kernel' = <<>>
    /\ UNCHANGED <<data_current, data_reference, displacement, solution, material,
                   inverse_diagonal_entries, diagonal_entries,
                   diagonal_is_available, aborted>>

\* precondition_Jacobi(dst, src, omega)
PreconditionJacobi ==
    /\ ~aborted
    /\ \E k \in 0 .. NumArgs - 1 :
          LET n   == IF JacobiInitialized THEN Size(inverse_diagonal_entries.vec)
                     ELSE NumCells + 1
              src == SrcVec(k, n)
              dst == DstVec(k, n)
          IN  call' = [NoCall EXCEPT
                         !.op = "precondition_Jacobi", !.src = src, !.dst_in = dst,
                         !.omega = OmegaVal(k),
                         !.err = IF JacobiInitialized THEN "none"
                                 ELSE "ExcNotInitialized",
                         !.dst = IF JacobiInitialized
                                 THEN precondition_Jacobi(dst, src, OmegaVal(k))
                                 ELSE dst]
    /\ last_kernel' = <<>>
    /\ UNCHANGED <<data_current, data_reference, displacement, solution, material,
                   inverse_diagonal_entries, diagonal_entries,
                   diagonal_is_available, aborted>>

Next ==
    \/ Clear
    \/ Initialize
    \/ SetMaterial
    \/ NewtonUpdate
    \/ Vmult
    \/ TvmultCall
    \/ VmultAdd
    \/ TvmultAdd
    \/ ComputeDiagonal
    \/ El
    \/ PreconditionJacobi

Spec == Init /\ [][Next]_vars

(***************************************************************************)
(* Properties of the operator.                                             *)
(***************************************************************************)
ApplyOps == {"vmult", "Tvmult", "vmult_add", "Tvmult_add"}

\* the most recent call was `op` and it returned without an exception
Completed(op) == ~aborted /\ call.op = op /\ call.err = "none"

\* the bound contexts agree on the cell-batch and quadrature-point counts
ContextsAgree ==
    /\ n_macro_cells(data_current) = n_macro_cells(data_reference)
    /\ n_q_points(data_current) = n_q_points(data_reference)

ConstrainedDofs(mf) ==
    {get_constrained_dofs(mf)[j] : j \in 1 .. Len(get_constrained_dofs(mf))}

UnitVector(g, n) == Tabulate(LAMBDA i : IF i = g THEN R(1) ELSE R(0), n)

\* C1: after vmult(dst, src) has completed, dst[k] = src[k] at every
\* constrained DOF k of the current-configuration context, whatever dst held
\* before and whatever the cell loop added to dst.
C1_ConstrainedRowsAreIdentity ==
    Completed("vmult") =>
        \A k \in ConstrainedDofs(data_current) : call.dst[k] = call.src[k]

\* a completed vmult whose cell loop wrote into dst and whose src is non-zero
\* at a constrained DOF where dst held something else before
C1_Witness ==
    /\ Completed("vmult")
    /\ \E k \in ConstrainedDofs(data_current) :
          /\ call.src[k] # R(0)
          /\ call.dst_in[k] # call.src[k]
          /\ call.dst[k] = call.src[k]
    /\ \E i \in DOMAIN call.dst : call.dst[i] \notin {R(0), call.src[i]}

C3_ConstrainedDiagonalIsOne ==
    Completed("compute_diagonal") =>
        \A k \in ConstrainedDofs(data_current) :
            /\ diagonal_entries.vec[k] = R(1)
            /\ inverse_diagonal_entries.vec[k] = R(1)

\* a computed diagonal with a constrained DOF, next to unconstrained entries
\* that are not 1
C3_Witness ==
    /\ Completed("compute_diagonal")
    /\ ConstrainedDofs(data_current) # {}
    /\ \A k \in ConstrainedDofs(data_current) : diagonal_entries.vec[k] = R(1)
    /\ \E g \in DOMAIN diagonal_entries.vec : diagonal_entries.vec[g] # R(1)

\* C4: right after compute_diagonal(), inverse[i] = 1 / diagonal[i] where
\* |diagonal[i]| > sqrt(epsilon), and inverse[i] = 1 otherwise, a magnitude
\* equal to sqrt(epsilon) included; the diagonal itself keeps its value.
C4_InverseDiagonalIsClamped ==
    Completed("compute_diagonal") =>
        /\ DOMAIN inverse_diagonal_entries.vec = DOMAIN diagonal_entries.vec
        /\ \A i \in DOMAIN diagonal_entries.vec :
              LET d == diagonal_entries.vec[i]
                  v == inverse_diagonal_entries.vec[i]
              IN  /\ AbsExceedsInv(d, SqrtEpsilonInv) => RMul(v, d) = R(1)
                  /\ ~AbsExceedsInv(d, SqrtEpsilonInv) => v = R(1)
                  /\ RAbs(d) = Rat(1, SqrtEpsilonInv) => v = R(1)

\* a computed diagonal holding an entry of magnitude exactly sqrt(epsilon),
\* kept as it is with inverse 1, and a larger entry that was inverted
C4_Witness ==
    /\ Completed("compute_diagonal")
    /\ \E i \in DOMAIN diagonal_entries.vec :
          /\ diagonal_entries.vec[i] = Rat(1, SqrtEpsilonInv)
          /\ inverse_diagonal_entries.vec[i] = R(1)
    /\ \E i \in DOMAIN diagonal_entries.vec :
          /\ AbsExceedsInv(diagonal_entries.vec[i], SqrtEpsilonInv)
          /\ inverse_diagonal_entries.vec[i] # R(1)

\* C5: precondition_Jacobi fails with ExcNotInitialized exactly when the
\* diagonal is not available and succeeds whenever it is; the diagonal
\* becomes available only by a completed compute_diagonal() and stops being
\* available only by clear().
C5_JacobiNeedsDiagonal ==
    /\ []((~aborted /\ call.op = "precondition_Jacobi") =>
             /\ call.err = "ExcNotInitialized" <=> ~diagonal_is_available
             /\ diagonal_is_available => call.err = "none")
    /\ [][/\ (~diagonal_is_available /\ diagonal_is_available') =>
                 (call'.op = "compute_diagonal" /\ ~aborted')
          /\ (diagonal_is_available /\ ~diagonal_is_available') =>
                 call'.op = "clear"
          /\ (call'.op = "clear" /\ ~aborted) => ~diagonal_is_available'
          /\ (call'.op = "compute_diagonal" /\ ~aborted /\ ~aborted') =>
                 diagonal_is_available']_vars

\* precondition_Jacobi refused after a clear() that followed a computed
\* diagonal: the contexts are unbound again, the material is still set
C5_Witness ==
    /\ ~aborted
    /\ call.op = "precondition_Jacobi"
    /\ call.err = "ExcNotInitialized"
    /\ ~diagonal_is_available
    /\ data_current = NULL
    /\ material # NULL
    /\ displacement # NULL

\* C6: el(row, col) fails with ExcNotImplemented whenever row # col; for
\* row = col it fails with ExcNotInitialized while the diagonal is not
\* available and returns diagonal[row] otherwise; it changes no member.
C6_ElementAccess ==
    [][call'.op = "el" =>
          /\ call'.row # call'.col => call'.err = "ExcNotImplemented"
          /\ (call'.row = call'.col /\ ~diagonal_is_available) =>
                 call'.err = "ExcNotInitialized"
          /\ (call'.row = call'.col /\ diagonal_is_available) =>
                 /\ call'.err = "none"
                 /\ call'.ret = diagonal_entries.vec[call'.row]
          /\ UNCHANGED <<data_current, data_reference, displacement, solution,
                         material, inverse_diagonal_entries, diagonal_entries,
                         diagonal_is_available, aborted>>]_vars

\* an off-diagonal request refused as not implemented before any diagonal
\* was computed
C6_Witness ==
    /\ ~aborted
    /\ call.op = "el"
    /\ call.row # call.col
    /\ call.err = "ExcNotImplemented"
    /\ ~diagonal_is_available
    /\ diagonal_entries.null

\* C7: with the diagonal available, precondition_Jacobi(dst, src, omega)
\* leaves dst[i] = omega * inverse[i] * src[i] at every i, whatever dst held,
\* and changes neither the diagonal, the inverse diagonal nor the flag.
C7_JacobiIsScaledInverse ==
    [][(call'.op = "precondition_Jacobi" /\ diagonal_is_available) =>
          /\ call'.err = "none"
          /\ DOMAIN call'.dst = DOMAIN inverse_diagonal_entries.vec
          /\ \A i \in DOMAIN call'.dst :
                call'.dst[i] = RMul(call'.omega,
                                    RMul(inverse_diagonal_entries.vec[i],
                                         call'.src[i]))
          /\ UNCHANGED <<inverse_diagonal_entries, diagonal_entries,
                         diagonal_is_available>>]_vars

\* a Jacobi step with omega # 1 on an inverse diagonal with an entry that is
\* not 1, overwriting a different dst
C7_Witness ==
    /\ Completed("precondition_Jacobi")
    /\ diagonal_is_available
    /\ call.omega # R(1)
    /\ call.dst # call.dst_in
    /\ \E i \in DOMAIN call.dst :
          /\ inverse_diagonal_entries.vec[i] # R(1)
          /\ call.src[i] # R(0)
          /\ call.dst[i] # RMul(inverse_diagonal_entries.vec[i], call.src[i])

\* C8: each of vmult, Tvmult, vmult_add and Tvmult_add fails with
\* ExcInternalError when the contexts disagree on the cell-batch count or
\* on the quadrature-point count, before any cell is processed: nothing is
\* added to dst.
C8_MismatchFailsBeforeCellLoop ==
    (~aborted /\ call.op \in ApplyOps /\ ~ContextsAgree) =>
        /\ call.err = "ExcInternalError"
        /\ last_kernel = <<>>
        /\ call.dst = IF call.op \in {"vmult", "Tvmult"}
                      THEN ZeroVector(Size(call.dst_in))
                      ELSE call.dst_in

\* vmult_add refused on contexts with equal cell-batch counts and different
\* quadrature-point counts
C8_Witness ==
    /\ ~aborted
    /\ call.op = "vmult_add"
    /\ n_macro_cells(data_current) = n_macro_cells(data_reference)
    /\ n_q_points(data_current) # n_q_points(data_reference)
    /\ call.err = "ExcInternalError"
    /\ call.dst = call.dst_in
    /\ call.src # ZeroVector(Size(call.src))

\* C9: Tvmult(dst, src) leaves the dst that vmult(dst, src) leaves, and
\* vmult_add and Tvmult_add leave dst[i] = dst_before[i] + vmult(src)[i] at
\* every i, the constrained DOFs included.
C9_VariantsReduceToVmult ==
    /\ (~aborted /\ call.op = "Tvmult") =>
           /\ call.err = vmult(call.dst_in, call.src).err
           /\ call.dst = vmult(call.dst_in, call.src).dst
    /\ (~aborted /\ call.op \in {"vmult_add", "Tvmult_add"} /\ call.err = "none") =>
           /\ vmult(call.dst_in, call.src).err = "none"
           /\ \A i \in DOMAIN call.dst :
                 call.dst[i] = RAdd(call.dst_in[i],
                                    vmult(call.dst_in, call.src).dst[i])

\* a completed Tvmult_add onto a non-zero dst with a non-zero action, src
\* being non-zero at a constrained DOF
C9_Witness ==
    /\ Completed("Tvmult_add")
    /\ call.dst # call.dst_in
    /\ \E i \in DOMAIN call.dst :
          /\ call.dst_in[i] # R(0)
          /\ call.dst[i] \notin {call.dst_in[i], R(0)}
          /\ ~is_constrained(data_current, i)
    /\ \E k \in ConstrainedDofs(data_current) :
          /\ call.src[k] # R(0)
          /\ call.dst[k] = RAdd(call.dst_in[k], call.src[k])

\* the quadrature data of the last cell loop: one record per cell batch,
\* lane and quadrature point
KernelPoints ==
    {last_kernel[c][lane][q] :
        c \in DOMAIN last_kernel, lane \in 0 .. n_array_elements - 1,
        q \in 0 .. (IF last_kernel = <<>> THEN 0 ELSE n_q_points(data_current)) - 1}

\* C10 as amended: at every quadrature point and lane, both submitted
\* values are the material and the geometric contribution times a factor
\* that is referenceWeight / currentWeight where |currentWeight| > 1e-10
\* and the reference weight itself, not 1, otherwise.
C10_RescaleFactor ==
    \A p \in KernelPoints :
        /\ p.JxW_scale = IF AbsExceedsJxWTol(p.JxW_current)
                         THEN RMul(p.JxW_reference, RInv(p.JxW_current))
                         ELSE p.JxW_reference
        /\ p.submit_symmetric_gradient = RMul(p.jc_part, p.JxW_scale)
        /\ p.submit_gradient = RMul(p.geo, p.JxW_scale)

\* a cell loop with a lane whose current weight is within the guard and a
\* lane rescaled by a ratio other than 1 with non-zero contributions
C10_Witness ==
    /\ ~aborted
    /\ \E p \in KernelPoints : ~AbsExceedsJxWTol(p.JxW_current)
    /\ \E p \in KernelPoints :
          /\ AbsExceedsJxWTol(p.JxW_current)
          /\ p.JxW_scale \notin {R(1), p.JxW_reference}
          /\ p.jc_part # R(0)
          /\ p.geo # R(0)

\* C10 as stated: the factor is referenceWeight / currentWeight where
\* |currentWeight| > 1e-10 and 1 otherwise.
C10_RescaleFactorOneWhenGuarded ==
    \A p \in KernelPoints :
        p.JxW_scale = IF AbsExceedsJxWTol(p.JxW_current)
                      THEN RMul(p.JxW_reference, RInv(p.JxW_current))
                      ELSE R(1)

\* C11: compute_diagonal() called while the contexts disagree on the
\* cell-batch count or on the quadrature-point count fails with
\* ExcInternalError, probes no cell and does not make the diagonal available.
C11_DiagonalRefusesMismatch ==
    [][(/\ call'.op = "compute_diagonal"
        /\ ~aborted
        /\ data_current # NULL
        /\ data_reference # NULL
        /\ ~ContextsAgree) =>
          /\ call'.err = "ExcInternalError"
          /\ last_kernel' = <<>>
          /\ ~aborted'
          /\ ~(~diagonal_is_available /\ diagonal_is_available')]_vars

\* compute_diagonal() that returned without an error on contexts with
\* different cell-batch counts, having probed cells, with the diagonal
\* marked available
C11_Witness ==
    /\ Completed("compute_diagonal")
    /\ n_macro_cells(data_current) # n_macro_cells(data_reference)
    /\ last_kernel # <<>>
    /\ diagonal_is_available
    /\ \E g \in DOMAIN diagonal_entries.vec : diagonal_entries.vec[g] # R(1)

\* C12: initialize and set_material change only the bound contexts, the
\* displacement pointer and the material: the diagonal, its inverse and the
\* flag stay as they are, the flag changes only by compute_diagonal() or
\* clear(), and while it is set precondition_Jacobi and el(row, row)
\* succeed on the stored values.
C12_BindingKeepsDiagonal ==
    /\ [][/\ call'.op \in {"initialize", "set_material"} =>
                UNCHANGED <<inverse_diagonal_entries, diagonal_entries,
                            diagonal_is_available, solution, aborted>>
          /\ call'.op = "initialize" => UNCHANGED material
          /\ call'.op = "set_material" =>
                UNCHANGED <<data_current, data_reference, displacement>>
          /\ diagonal_is_available' # diagonal_is_available =>
                call'.op \in {"compute_diagonal", "clear"}]_vars
    /\ []((~aborted /\ diagonal_is_available /\ call.op = "precondition_Jacobi") =>
             /\ call.err = "none"
             /\ \A i \in DOMAIN call.dst :
                   call.dst[i] = RMul(call.omega,
                                      RMul(inverse_diagonal_entries.vec[i],
                                           call.src[i])))
    /\ []((~aborted /\ diagonal_is_available /\ call.op = "el"
              /\ call.row = call.col) =>
             /\ call.err = "none"
             /\ call.ret = diagonal_entries.vec[call.row])

\* initialize has just bound contexts of another size than the ones the
\* stored diagonal was computed on; the diagonal is still marked available
C12_Witness ==
    /\ ~aborted
    /\ call.op = "initialize"
    /\ diagonal_is_available
    /\ ~diagonal_entries.null
    /\ Size(diagonal_entries.vec) # n_dofs(data_current)
    /\ \E g \in DOMAIN diagonal_entries.vec : diagonal_entries.vec[g] # R(1)

====
